---- MODULE Spec2Model ----
(***************************************************************************)
(* Model of spotify_data_extract.py: the bounded retry wrapper            *)
(* fetch_with_retry and the playlist -> track pages -> artist lookup ->    *)
(* INSERT OR IGNORE pipeline over the five SQLite tables.                  *)
(*                                                                         *)
(* Python values are modelled as follows.  A dict is a record, None is the *)
(* record `None`, a list is a sequence, a str holding decimal digits is    *)
(* [str |-> <<digits>>], an int object is [int |-> n].  A table is the     *)
(* sequence of its rows in rowid order.  Durations are in milliseconds.    *)
(***************************************************************************)
EXTENDS Integers, Sequences, FiniteSets, TLC

VARIABLES
    world,          \* what the remote API holds: playlist listing, track pages
    run,            \* ordinal of the current execution of the script
    pc,             \* position of the script
    site,           \* which call of fetch_with_retry is active
    retries,        \* fetch_with_retry: retries
    e,              \* fetch_with_retry: the caught SpotifyException
    wait,           \* fetch_with_retry: wait (seconds)
    ret,            \* value last returned by fetch_with_retry
    playlists,      \* script: playlists
    p_idx,          \* script: position in the playlist loop (1-based)
    results,        \* script: results
    tracks_items,   \* script: tracks_items
    i_idx,          \* script: position in the item loop (1-based)
    artist_genres,  \* script: artist_genres
    store,          \* the tables as seen through the open connection
    committed,      \* the tables as stored in spotify.db
    calls,          \* history: invocations of func in the current/last call
    rfails,         \* history: of those, how many failed with 429/403
    sinceCall,      \* history: time.sleep durations since the last invocation
    fetchedPages,   \* history: item lists of pages fetched for this playlist
    itemLog,        \* history of the current item: whether an artists row with
                    \* its key existed (known), how the artist lookup ended
                    \* (lookup), the tables written so far in order (writes)
    gaveUp,         \* history: call sites that exhausted retries in this run
    snap,           \* history: spotify.db when the current run started
    prevRun         \* history: how the previous run ended

vars == <<world, run, pc, site, retries, e, wait, ret, playlists, p_idx,
          results, tracks_items, i_idx, artist_genres, store, committed,
          calls, rfails, sinceCall, fetchedPages, itemLog, gaveUp, snap,
          prevRun>>

fetchVars == <<site, retries, e, wait, ret, calls, rfails, sinceCall, gaveUp>>
loopVars == <<playlists, p_idx, results, tracks_items, i_idx, artist_genres>>
runVars == <<world, run, snap, prevRun>>

----------------------------------------------------------------------------
(* Bounds of the model *)

MaxPlaylists == 2   \* longest playlist listing
MaxPages == 2       \* longest page chain of a playlist
MaxRuns == 2        \* executions of the script against the same spotify.db

(* Program constants *)

max_retries == 5    \* fetch_with_retry keyword default
delay == 1          \* fetch_with_retry keyword default (seconds)
PagePauseMs == 500  \* time.sleep(0.5) in the pagination loop

RetryableStatus == {429, 403}

----------------------------------------------------------------------------
(* Python values *)

None == [none |-> TRUE]

\* truth value of a Python object (None, empty dict and empty list are falsy)
Truthy(v) == v # None /\ v # <<>>

\* dict.get(key, default)
Get(d, key, default) == IF key \in DOMAIN d THEN d[key] ELSE default

PyStr(digits) == [str |-> digits]
PyInt(n) == [int |-> n]

RECURSIVE Decimal(_)
Decimal(ds) ==
    IF ds = <<>> THEN 0
    ELSE 10 * Decimal(SubSeq(ds, 1, Len(ds) - 1)) + ds[Len(ds)]

\* int(x) for a str of decimal digits or an int
IntOf(v) == IF "str" \in DOMAIN v THEN Decimal(v.str) ELSE v.int

RECURSIVE Join(_)
\* ",".join(list of str)
Join(l) ==
    IF l = <<>> THEN ""
    ELSE IF Len(l) = 1 THEN l[1]
    ELSE l[1] \o "," \o Join(Tail(l))

RECURSIVE Flatten(_)
Flatten(ss) == IF ss = <<>> THEN <<>> ELSE Head(ss) \o Flatten(Tail(ss))

SeqsUpTo(S, lo, hi) == UNION {[1..n -> S] : n \in lo..hi}

----------------------------------------------------------------------------
(* The data the remote API serves.  Track objects carry the fields the     *)
(* script reads (lines 156-173); a playlist item carries "track", which is *)
(* null for removed tracks and absent for some local files.                *)

ArtistAnn == [id |-> "r1", name |-> "Ann"]
ArtistAnnRenamed == [id |-> "r1", name |-> "Ann B."]
ArtistBob == [id |-> "r2", name |-> "Bob"]

AlbumOne == [id |-> "a1", name |-> "One", release_date |-> "2020"]
AlbumOneDeluxe == [id |-> "a1", name |-> "One (Deluxe)", release_date |-> "2021-05"]
AlbumTwo == [id |-> "a2", name |-> "Two", release_date |-> "2019-03-01"]

\* t1, a two-artist track on album a1
TrackA == [id |-> "t1", name |-> "Song", album |-> AlbumOne, popularity |-> 50,
           duration_ms |-> 1000, explicit |-> FALSE,
           artists |-> <<ArtistAnn, ArtistBob>>]
\* t1 again with other values: other name, other album, artist renamed
TrackB == [id |-> "t1", name |-> "Song (Live)", album |-> AlbumTwo, popularity |-> 10,
           duration_ms |-> 2000, explicit |-> TRUE,
           artists |-> <<ArtistAnnRenamed>>]
\* t2 on album a1, whose primary artist is another one than TrackA's
TrackC == [id |-> "t2", name |-> "Tune", album |-> AlbumOneDeluxe, popularity |-> 70,
           duration_ms |-> 3000, explicit |-> FALSE,
           artists |-> <<ArtistBob>>]

ItemA == [track |-> TrackA]
ItemB == [track |-> TrackB]
ItemC == [track |-> TrackC]
NullItem == [track |-> None]
LocalItem == [is_local |-> TRUE]

\* sp.artist(artist_id): the full artist object; for r2 the answer is an
\* empty object, a dict that is falsy
ArtistInfo(artist_id) ==
    IF artist_id = "r1" THEN [id |-> "r1", genres |-> <<"rock", "pop">>]
    ELSE IF artist_id = "r2" THEN <<>>
    ELSE [id |-> artist_id, genres |-> <<>>]

PlaylistIds == {"p1", "p2"}

Playlist1 == [id |-> "p1", name |-> "Mix", owner |-> [display_name |-> "ann"],
              tracks |-> [total |-> 3]]
\* p1 again with other values: renamed, other declared total
Playlist1Renamed == [id |-> "p1", name |-> "Mix 2", owner |-> [display_name |-> "ann"],
                     tracks |-> [total |-> 7]]
Playlist2 == [id |-> "p2", name |-> "Run", owner |-> [display_name |-> "bob"],
              tracks |-> [total |-> 0]]

PlaylistPool == {Playlist1, Playlist2}

\* the pages a playlist's track listing is cut into, in continuation order
PageStream(pid) ==
    IF pid = "p1" THEN <<(<<ItemA, NullItem>>), <<ItemB>>, <<ItemC>>, (<<>>)>>
    ELSE <<(<<ItemA, LocalItem>>), <<ItemC>>, (<<>>), <<ItemB>>>>

Listings == SeqsUpTo(PlaylistPool, 0, MaxPlaylists)

ListedIds(listing) == {listing[k].id : k \in 1..Len(listing)}

\* a world: the listing and, per listed playlist id, how many pages it has
WorldsOver(listings) ==
    {w \in [listing : listings, npages : [PlaylistIds -> 1..MaxPages]] :
        \A id \in PlaylistIds \ ListedIds(w.listing) : w.npages[id] = 1}

Worlds == WorldsOver(Listings)

\* sp.current_user_playlists(limit=30)
current_user_playlists(w) == [items |-> w.listing]

PageOf(w, pid, k) ==
    [items |-> PageStream(pid)[((k - 1) % Len(PageStream(pid))) + 1],
     next |-> IF k < w.npages[pid] THEN [pid |-> pid, page |-> k + 1] ELSE None]

\* sp.playlist_tracks(pid, limit=100)
playlist_tracks(w, pid) == PageOf(w, pid, 1)

\* sp.next(results)
next(w, res) == PageOf(w, res.next.pid, res.next.page)

\* the error responses the API can give: status and headers
\* a Retry-After hint: the seconds the server asks for and the header text
HintPool == {[seconds |-> 10, text |-> <<1, 0>>]}
ErrorPool ==
    {[http_status |-> st, headers |-> <<>>] : st \in {429, 403, 404}}
    \cup {[http_status |-> 429, headers |-> [h \in {"Retry-After"} |-> PyStr(d.text)]] :
            d \in HintPool}

NoError == [http_status |-> 0, headers |-> <<>>]

----------------------------------------------------------------------------
(* The SQLite store *)

TableNames == {"artists", "albums", "tracks", "playlists", "playlist_tracks"}

\* playlist_tracks keyed by the track alone
PrimaryKeyTrackOnly(table) ==
    CASE table = "artists" -> {"artist_id"}
      [] table = "albums" -> {"album_id"}
      [] table = "tracks" -> {"track_id"}
      [] table = "playlists" -> {"playlist_id"}
      [] table = "playlist_tracks" -> {"track_id"}

\* primary key columns of the CREATE TABLE statements
PrimaryKey(table) ==
    CASE table = "artists" -> {"artist_id"}
      [] table = "albums" -> {"album_id"}
      [] table = "tracks" -> {"track_id"}
      [] table = "playlists" -> {"playlist_id"}
      [] table = "playlist_tracks" -> {"playlist_id", "track_id"}

EmptyStore == [t \in TableNames |-> <<>>]

NoItemLog == [known |-> FALSE, lookup |-> "none", writes |-> <<>>]

SameKey(table, r1, r2) == \A c \in PrimaryKey(table) : r1[c] = r2[c]

HasKey(db, table, row) ==
    \E k \in 1..Len(db[table]) : SameKey(table, db[table][k], row)

\* INSERT without a conflict clause on a table that lost its key
InsertAlways(db, table, row) == [db EXCEPT ![table] = Append(@, row)]

\* INSERT OR REPLACE: the conflicting row is deleted, the new one added
InsertOrReplace(db, table, row) ==
    [db EXCEPT ![table] =
        Append(SelectSeq(@, LAMBDA r : ~SameKey(table, r, row)), row)]

\* INSERT OR IGNORE INTO table VALUES row
InsertOrIgnore(db, table, row) ==
    IF HasKey(db, table, row) THEN db
    ELSE [db EXCEPT ![table] = Append(@, row)]

----------------------------------------------------------------------------
(* The script's view of the current playlist and item *)

playlist == playlists[p_idx]
pid == playlist.id

item == tracks_items[i_idx]
track == Get(item, "track", None)
album == track.album
artist == track.artists[1]

PlaylistRow ==
    [playlist_id |-> pid, name |-> playlist.name,
     owner |-> playlist.owner.display_name, num_tracks |-> playlist.tracks.total]

ArtistRow ==
    [artist_id |-> artist.id, name |-> artist.name, genres |-> artist_genres]

AlbumRow ==
    [album_id |-> album.id, name |-> album.name,
     release_date |-> album.release_date, artist_id |-> artist.id]

TrackRow ==
    [track_id |-> track.id, name |-> track.name, album_id |-> album.id,
     popularity |-> track.popularity, duration_ms |-> track.duration_ms,
     explicit |-> track.explicit]

PlaylistTrackRow == [playlist_id |-> pid, track_id |-> track.id]

----------------------------------------------------------------------------
(* fetch_with_retry *)

Sites == {"playlists", "first_page", "next_page", "artist"}

\* where the script continues when the call at a site returns
ReturnLabel(s) ==
    CASE s = "playlists" -> "after_playlists"
      [] s = "first_page" -> "after_first_page"
      [] s = "next_page" -> "after_next_page"
      [] s = "artist" -> "after_artist"

ReturnLabels == {ReturnLabel(s) : s \in Sites}

\* func(*args, **kwargs) when the API answers
Invoke(s) ==
    CASE s = "playlists" -> current_user_playlists(world)
      [] s = "first_page" -> playlist_tracks(world, pid)
      [] s = "next_page" -> next(world, results)
      [] s = "artist" -> ArtistInfo(artist.id)

\* while retries <= max_retries
LoopCondInclusive == retries <= max_retries

\* while retries < max_retries
LoopCond == retries < max_retries

\* entering fetch_with_retry at a call site: retries = 0
Enter(s) ==
    /\ site' = s
    /\ retries' = 0
    /\ e' = NoError
    /\ wait' = 0
    /\ calls' = 0
    /\ rfails' = 0
    /\ pc' = "fetch"
    /\ UNCHANGED <<ret, sinceCall, gaveUp>>

\* variant: a falsy answer is taken for a failure and the call repeated
TryOkTruthyOnly ==
    /\ pc = "fetch"
    /\ LoopCond
    /\ calls' = calls + 1
    /\ sinceCall' = <<>>
    /\ IF Truthy(Invoke(site))
       THEN ret' = Invoke(site) /\ pc' = ReturnLabel(site) /\ retries' = retries
       ELSE ret' = ret /\ pc' = "fetch" /\ retries' = retries + 1
    /\ UNCHANGED <<site, e, wait, rfails, gaveUp>>
    /\ UNCHANGED <<loopVars, runVars, store, committed, fetchedPages, itemLog>>

\* return func(*args, **kwargs)
TryOk ==
    /\ pc = "fetch"
    /\ LoopCond
    /\ calls' = calls + 1
    /\ sinceCall' = <<>>
    /\ ret' = Invoke(site)
    /\ pc' = ReturnLabel(site)
    /\ UNCHANGED <<site, retries, e, wait, rfails, gaveUp>>
    /\ UNCHANGED <<loopVars, runVars, store, committed, fetchedPages, itemLog>>

\* func(*args, **kwargs) raises SpotifyException
TryRaise ==
    /\ pc = "fetch"
    /\ LoopCond
    /\ \E err \in ErrorPool :
        /\ e' = err
        /\ rfails' = IF err.http_status \in RetryableStatus THEN rfails + 1 ELSE rfails
    /\ calls' = calls + 1
    /\ sinceCall' = <<>>
    /\ pc' = "except"
    /\ UNCHANGED <<site, retries, wait, ret, gaveUp>>
    /\ UNCHANGED <<loopVars, runVars, store, committed, fetchedPages, itemLog>>

\* every status taken for a rate limit
IsRetryableAlways(err) == TRUE

\* if e.http_status in [429, 403]
IsRetryable(err) == err.http_status \in RetryableStatus

\* the wait grown with the number of retries
WaitForGrowing(err) ==
    (retries + 1) * IntOf(Get(err.headers, "Retry-After", PyInt(delay)))

\* wait = int(e.headers.get("Retry-After", delay))
WaitFor(err) == IntOf(Get(err.headers, "Retry-After", PyInt(delay)))

\* except branch for 429/403: sleep for wait, retries += 1
Retryable ==
    /\ pc = "except"
    /\ IsRetryable(e)
    /\ wait' = WaitFor(e)
    /\ sinceCall' = Append(sinceCall, 1000 * wait')
    /\ retries' = retries + 1
    /\ pc' = "fetch"
    /\ UNCHANGED <<site, e, ret, calls, rfails, gaveUp>>
    /\ UNCHANGED <<loopVars, runVars, store, committed, fetchedPages, itemLog>>

\* variant: the connection commits what it holds when the error ends the script
ReraiseCommitting ==
    /\ pc = "except"
    /\ ~IsRetryable(e)
    /\ pc' = "aborted"
    /\ committed' = store
    /\ UNCHANGED fetchVars
    /\ UNCHANGED <<loopVars, runVars, store, fetchedPages, itemLog>>

\* except branch for any other status: raise e; nothing catches it and the
\* script ends there, its transaction left uncommitted
Reraise ==
    /\ pc = "except"
    /\ ~IsRetryable(e)
    /\ pc' = "aborted"
    /\ UNCHANGED fetchVars
    /\ UNCHANGED <<loopVars, runVars, store, committed, fetchedPages, itemLog>>

\* variant: the loop left by raising the last error
GiveUpRaising ==
    /\ pc = "fetch"
    /\ ~LoopCond
    /\ pc' = "aborted"
    /\ gaveUp' = gaveUp \cup {site}
    /\ UNCHANGED <<site, retries, e, wait, ret, calls, rfails, sinceCall>>
    /\ UNCHANGED <<loopVars, runVars, store, committed, fetchedPages, itemLog>>

\* loop left: print("Max retries reached, skipping..."); return None
GiveUp ==
    /\ pc = "fetch"
    /\ ~LoopCond
    /\ ret' = None
    /\ gaveUp' = gaveUp \cup {site}
    /\ pc' = ReturnLabel(site)
    /\ UNCHANGED <<site, retries, e, wait, calls, rfails, sinceCall>>
    /\ UNCHANGED <<loopVars, runVars, store, committed, fetchedPages, itemLog>>

\* the caller takes the returned value; the frame of fetch_with_retry is gone
Leave ==
    /\ site' = "none"
    /\ retries' = 0
    /\ e' = NoError
    /\ wait' = 0
    /\ ret' = None
    /\ calls' = 0
    /\ rfails' = 0
    /\ UNCHANGED <<sinceCall, gaveUp>>

----------------------------------------------------------------------------
(* The extraction pipeline *)

\* line 124: fetch_with_retry(sp.current_user_playlists, limit=30)
FetchPlaylists ==
    /\ pc = "list"
    /\ Enter("playlists")
    /\ UNCHANGED <<loopVars, runVars, store, committed, fetchedPages, itemLog>>

\* line 125: playlists = playlists_data["items"] if playlists_data else []
AfterPlaylists ==
    /\ pc = "after_playlists"
    /\ playlists' = IF Truthy(ret) THEN ret.items ELSE <<>>
    /\ p_idx' = 1
    /\ pc' = "playlist"
    /\ Leave
    /\ UNCHANGED <<results, tracks_items, i_idx, artist_genres>>
    /\ UNCHANGED <<runVars, store, committed, fetchedPages, itemLog>>

\* variant: the playlist row is not written when the playlist is taken up
PlaylistInsertSkipped ==
    /\ pc = "playlist"
    /\ p_idx <= Len(playlists)
    /\ fetchedPages' = <<>>
    /\ pc' = "first_page"
    /\ UNCHANGED <<fetchVars, loopVars, runVars, store, committed, itemLog>>

\* lines 131-140: next playlist of the loop, INSERT OR IGNORE INTO playlists
PlaylistInsert ==
    /\ pc = "playlist"
    /\ p_idx <= Len(playlists)
    /\ store' = InsertOrIgnore(store, "playlists", PlaylistRow)
    /\ fetchedPages' = <<>>
    /\ pc' = "first_page"
    /\ UNCHANGED <<fetchVars, loopVars, runVars, committed, itemLog>>

\* line 142: fetch_with_retry(sp.playlist_tracks, pid, limit=100)
FetchFirstPage ==
    /\ pc = "first_page"
    /\ Enter("first_page")
    /\ UNCHANGED <<loopVars, runVars, store, committed, fetchedPages, itemLog>>

\* lines 142-143: results = ...; tracks_items = results.get("items", []) if results else []
AfterFirstPage ==
    /\ pc = "after_first_page"
    /\ results' = ret
    /\ tracks_items' = IF Truthy(ret) THEN Get(ret, "items", <<>>) ELSE <<>>
    /\ fetchedPages' = IF ret # None THEN <<Get(ret, "items", <<>>)>> ELSE <<>>
    /\ pc' = "page_loop"
    /\ Leave
    /\ UNCHANGED <<playlists, p_idx, i_idx, artist_genres>>
    /\ UNCHANGED <<runVars, store, committed, itemLog>>

\* while results and results.get("next")
MorePages == Truthy(results) /\ Truthy(Get(results, "next", None))

\* lines 145-146: loop test true, fetch_with_retry(sp.next, results)
FetchNextPage ==
    /\ pc = "page_loop"
    /\ MorePages
    /\ Enter("next_page")
    /\ UNCHANGED <<loopVars, runVars, store, committed, fetchedPages, itemLog>>

\* the page's items assigned instead of appended
ExtendReplacing(acc, res) == Get(res, "items", <<>>)

\* tracks_items.extend(results.get("items", []))
Extend(acc, res) == acc \o Get(res, "items", <<>>)

\* variant: a continuation without result empties the accumulated items
AfterNextPageDiscarding ==
    /\ pc = "after_next_page"
    /\ results' = ret
    /\ tracks_items' = IF Truthy(ret) THEN Extend(tracks_items, ret) ELSE <<>>
    /\ fetchedPages' = IF ret # None THEN Append(fetchedPages, Get(ret, "items", <<>>))
                       ELSE fetchedPages
    /\ pc' = "page_loop"
    /\ site' = "none"
    /\ retries' = 0
    /\ e' = NoError
    /\ wait' = 0
    /\ ret' = None
    /\ calls' = 0
    /\ rfails' = 0
    /\ sinceCall' = Append(sinceCall, PagePauseMs)
    /\ UNCHANGED <<gaveUp, playlists, p_idx, i_idx, artist_genres>>
    /\ UNCHANGED <<runVars, store, committed, itemLog>>

\* variant: the loop body without its time.sleep(0.5)
AfterNextPageNoPause ==
    /\ pc = "after_next_page"
    /\ results' = ret
    /\ tracks_items' = IF Truthy(ret) THEN Extend(tracks_items, ret) ELSE tracks_items
    /\ fetchedPages' = IF ret # None THEN Append(fetchedPages, Get(ret, "items", <<>>))
                       ELSE fetchedPages
    /\ pc' = "page_loop"
    /\ Leave
    /\ UNCHANGED <<playlists, p_idx, i_idx, artist_genres>>
    /\ UNCHANGED <<runVars, store, committed, itemLog>>

\* lines 146-149: results = ...; extend when truthy; time.sleep(0.5)
AfterNextPage ==
    /\ pc = "after_next_page"
    /\ results' = ret
    /\ tracks_items' = IF Truthy(ret) THEN Extend(tracks_items, ret) ELSE tracks_items
    /\ fetchedPages' = IF ret # None THEN Append(fetchedPages, Get(ret, "items", <<>>))
                       ELSE fetchedPages
    /\ pc' = "page_loop"
    /\ site' = "none"
    /\ retries' = 0
    /\ e' = NoError
    /\ wait' = 0
    /\ ret' = None
    /\ calls' = 0
    /\ rfails' = 0
    /\ sinceCall' = Append(sinceCall, PagePauseMs)
    /\ UNCHANGED <<gaveUp, playlists, p_idx, i_idx, artist_genres>>
    /\ UNCHANGED <<runVars, store, committed, itemLog>>

\* line 145 false and line 151: the item loop starts
StartItems ==
    /\ pc = "page_loop"
    /\ ~MorePages
    /\ i_idx' = 1
    /\ itemLog' = NoItemLog
    /\ pc' = "items"
    /\ UNCHANGED <<fetchVars, runVars, store, committed, fetchedPages>>
    /\ UNCHANGED <<playlists, p_idx, results, tracks_items, artist_genres>>

\* if not track
NoTrack == ~Truthy(track)

\* the item without a track recorded as a member of the playlist
SkipItemWritingRow ==
    /\ pc = "items"
    /\ i_idx <= Len(tracks_items)
    /\ NoTrack
    /\ store' = [store EXCEPT !["playlist_tracks"] =
                    Append(@, [playlist_id |-> pid, track_id |-> None])]
    /\ i_idx' = i_idx + 1
    /\ itemLog' = NoItemLog
    /\ UNCHANGED <<fetchVars, runVars, committed, fetchedPages, pc>>
    /\ UNCHANGED <<playlists, p_idx, results, tracks_items, artist_genres>>

\* lines 151-154: track = item.get("track"); if not track: continue
SkipItem ==
    /\ pc = "items"
    /\ i_idx <= Len(tracks_items)
    /\ NoTrack
    /\ i_idx' = i_idx + 1
    /\ itemLog' = NoItemLog
    /\ UNCHANGED <<fetchVars, runVars, store, committed, fetchedPages, pc>>
    /\ UNCHANGED <<playlists, p_idx, results, tracks_items, artist_genres>>

\* lines 156-170: read the track's fields, fetch_with_retry(sp.artist, artist_id)
FetchArtist ==
    /\ pc = "items"
    /\ i_idx <= Len(tracks_items)
    /\ ~NoTrack
    /\ itemLog' = [known |-> HasKey(store, "artists", [artist_id |-> artist.id]),
                   lookup |-> "none", writes |-> <<>>]
    /\ Enter("artist")
    /\ UNCHANGED <<loopVars, runVars, store, committed, fetchedPages>>

\* a missing artist object stored as the text of None
GenresOfNoneText(artist_info) ==
    IF Truthy(artist_info) THEN Join(Get(artist_info, "genres", <<>>)) ELSE "None"

\* ",".join(artist_info.get("genres", [])) if artist_info else ""
GenresOf(artist_info) ==
    IF Truthy(artist_info) THEN Join(Get(artist_info, "genres", <<>>)) ELSE ""

\* lines 170-173: artist_info = ...; artist_genres = ...
AfterArtist ==
    /\ pc = "after_artist"
    /\ artist_genres' = GenresOf(ret)
    /\ itemLog' = [itemLog EXCEPT !.lookup = IF ret = None THEN "gave_up" ELSE "ok"]
    /\ pc' = "insert_artist"
    /\ Leave
    /\ UNCHANGED <<playlists, p_idx, results, tracks_items, i_idx>>
    /\ UNCHANGED <<runVars, store, committed, fetchedPages>>

\* lines 176-179: INSERT OR IGNORE INTO artists
InsertArtist ==
    /\ pc = "insert_artist"
    /\ store' = InsertOrIgnore(store, "artists", ArtistRow)
    /\ itemLog' = [itemLog EXCEPT !.writes = Append(@, "artists")]
    /\ pc' = "insert_album"
    /\ UNCHANGED <<fetchVars, loopVars, runVars, committed, fetchedPages>>

\* the track statement placed where the album statement belongs
InsertAlbumAfterTrack ==
    /\ pc = "insert_album"
    /\ store' = InsertOrIgnore(store, "tracks", TrackRow)
    /\ itemLog' = [itemLog EXCEPT !.writes = Append(@, "tracks")]
    /\ pc' = "insert_track"
    /\ UNCHANGED <<fetchVars, loopVars, runVars, committed, fetchedPages>>

\* lines 182-185: INSERT OR IGNORE INTO albums
InsertAlbum ==
    /\ pc = "insert_album"
    /\ store' = InsertOrIgnore(store, "albums", AlbumRow)
    /\ itemLog' = [itemLog EXCEPT !.writes = Append(@, "albums")]
    /\ pc' = "insert_track"
    /\ UNCHANGED <<fetchVars, loopVars, runVars, committed, fetchedPages>>

\* lines 188-191: INSERT OR IGNORE INTO tracks
InsertTrack ==
    /\ pc = "insert_track"
    /\ store' = InsertOrIgnore(store, "tracks", TrackRow)
    /\ itemLog' = [itemLog EXCEPT !.writes = Append(@, "tracks")]
    /\ pc' = "insert_playlist_track"
    /\ UNCHANGED <<fetchVars, loopVars, runVars, committed, fetchedPages>>

\* lines 194-197: INSERT OR IGNORE INTO playlist_tracks; next item
InsertPlaylistTrack ==
    /\ pc = "insert_playlist_track"
    /\ store' = InsertOrIgnore(store, "playlist_tracks", PlaylistTrackRow)
    /\ itemLog' = [itemLog EXCEPT !.writes = Append(@, "playlist_tracks")]
    /\ i_idx' = i_idx + 1
    /\ pc' = "items"
    /\ UNCHANGED <<fetchVars, runVars, committed, fetchedPages>>
    /\ UNCHANGED <<playlists, p_idx, results, tracks_items, artist_genres>>

\* the next playlist started without conn.commit()
CommitDeferred ==
    /\ pc = "items"
    /\ i_idx > Len(tracks_items)
    /\ p_idx' = p_idx + 1
    /\ itemLog' = NoItemLog
    /\ pc' = "playlist"
    /\ UNCHANGED <<fetchVars, runVars, store, committed, fetchedPages>>
    /\ UNCHANGED <<playlists, results, tracks_items, i_idx, artist_genres>>

\* line 199: item loop over, conn.commit(); next playlist
Commit ==
    /\ pc = "items"
    /\ i_idx > Len(tracks_items)
    /\ committed' = store
    /\ p_idx' = p_idx + 1
    /\ itemLog' = NoItemLog
    /\ pc' = "playlist"
    /\ UNCHANGED <<fetchVars, runVars, store, fetchedPages>>
    /\ UNCHANGED <<playlists, results, tracks_items, i_idx, artist_genres>>

\* lines 201-202: playlist loop over, conn.close(), success message
Finish ==
    /\ pc = "playlist"
    /\ p_idx > Len(playlists)
    /\ pc' = "done"
    /\ UNCHANGED <<fetchVars, loopVars, runVars, store, committed, fetchedPages, itemLog>>

\* how a run ended: aborted by an error, completed with every listing and
\* page fetch answered, or completed with one of them given up
HowEnded ==
    IF pc = "aborted" THEN "aborted"
    ELSE IF gaveUp \cap {"playlists", "first_page", "next_page"} = {} THEN "complete"
    ELSE "partial"

\* the script is started again on the same spotify.db (lines 13-97 run
\* again: the new connection sees what was committed, an uncommitted
\* transaction of the ended process is gone, CREATE TABLE IF NOT EXISTS
\* changes nothing)
Restart ==
    /\ pc \in {"done", "aborted"}
    /\ run < MaxRuns
    /\ run' = run + 1
    /\ prevRun' = HowEnded
    /\ snap' = committed
    /\ store' = committed
    /\ pc' = "list"
    /\ site' = "none"
    /\ retries' = 0
    /\ e' = NoError
    /\ wait' = 0
    /\ ret' = None
    /\ calls' = 0
    /\ rfails' = 0
    /\ sinceCall' = <<>>
    /\ gaveUp' = {}
    /\ playlists' = <<>>
    /\ p_idx' = 1
    /\ results' = None
    /\ tracks_items' = <<>>
    /\ i_idx' = 1
    /\ artist_genres' = ""
    /\ fetchedPages' = <<>>
    /\ itemLog' = NoItemLog
    /\ UNCHANGED <<world, committed>>

----------------------------------------------------------------------------

InitIn(W) ==
    /\ world \in W
    /\ run = 1
    /\ pc = "list"
    /\ site = "none"
    /\ retries = 0
    /\ e = NoError
    /\ wait = 0
    /\ ret = None
    /\ playlists = <<>>
    /\ p_idx = 1
    /\ results = None
    /\ tracks_items = <<>>
    /\ i_idx = 1
    /\ artist_genres = ""
    /\ store = EmptyStore
    /\ committed = EmptyStore
    /\ calls = 0
    /\ rfails = 0
    /\ sinceCall = <<>>
    /\ fetchedPages = <<>>
    /\ itemLog = NoItemLog
    /\ gaveUp = {}
    /\ snap = EmptyStore
    /\ prevRun = "none"

Init == InitIn(Worlds)

Step ==
    \/ FetchPlaylists
    \/ TryOk
    \/ TryRaise
    \/ Retryable
    \/ Reraise
    \/ GiveUp
    \/ AfterPlaylists
    \/ PlaylistInsert
    \/ FetchFirstPage
    \/ AfterFirstPage
    \/ FetchNextPage
    \/ AfterNextPage
    \/ StartItems
    \/ SkipItem
    \/ FetchArtist
    \/ AfterArtist
    \/ InsertArtist
    \/ InsertAlbum
    \/ InsertTrack
    \/ InsertPlaylistTrack
    \/ Commit
    \/ Finish

\* one execution of the script on a fresh spotify.db
Next == Step

Spec == Init /\ [][Next]_vars

\* executions repeated on the same spotify.db, for these listings: none,
\* one playlist, and a playlist listed again with other values
RerunListings == {<<>>, <<Playlist2>>, <<Playlist1, Playlist1Renamed>>}

InitRerun == InitIn(WorldsOver(RerunListings))

NextRerun == Step \/ Restart

SpecRerun == InitRerun /\ [][NextRerun]_vars

\* one execution that keeps running, for these listings: the script is a
\* single thread of straight-line code and loops, its sleeps and API calls
\* return, so a statement that can run does run
LiveListings == {<<>>, <<Playlist1>>, <<Playlist2, Playlist1>>}

InitLive == InitIn(WorldsOver(LiveListings))

SpecLive == InitLive /\ [][Next]_vars /\ WF_vars(Next)

\* one execution on an account with the single playlist p1, of one page up
\* to one page more than MaxPages
PagingWorlds ==
    {[listing |-> <<Playlist1>>,
      npages |-> [id \in PlaylistIds |-> IF id = "p1" THEN n ELSE 1]] :
        n \in 1..(MaxPages + 1)}

InitPages == InitIn(PagingWorlds)

SpecPages == InitPages /\ [][Next]_vars

----------------------------------------------------------------------------
(* Properties *)

\* C1: a call of fetch_with_retry in which every invocation of the operation
\* failed with 429 or 403 has invoked it exactly max_retries times and has
\* returned None; it has not raised.
C1_GivesUpAfterMaxRetries ==
    (pc \in ReturnLabels \cup {"aborted"} /\ rfails = calls)
        => (calls = max_retries /\ ret = None /\ pc \in ReturnLabels)

C1_Witness ==
    /\ pc \in ReturnLabels
    /\ rfails = max_retries
    /\ calls = max_retries
    /\ ret = None

\* the error carries a Retry-After hint
HasHint(err) == "Retry-After" \in DOMAIN err.headers

\* the seconds the server asked for in the hint
HintSeconds(err) ==
    (CHOOSE h \in HintPool : PyStr(h.text) = err.headers["Retry-After"]).seconds

\* C2: when an attempt is about to start after a 429/403 failure, exactly one
\* suspension has happened since the failed invocation; it lasted the N
\* seconds of the error's Retry-After hint, or the fallback delay when the
\* error had no hint, whatever the number of retries so far.
C2_WaitsForHint ==
    (pc = "fetch" /\ retries > 0)
        => /\ Len(sinceCall) = 1
           /\ sinceCall[1] = IF HasHint(e) THEN 1000 * HintSeconds(e)
                             ELSE 1000 * delay

C2_Witness ==
    /\ pc = "fetch"
    /\ retries = 3
    /\ HasHint(e)
    /\ HintSeconds(e) = 10
    /\ sinceCall = <<10000>>

\* C3: an error that is neither 429 nor 403 is propagated in the next step:
\* no further invocation, no suspension, no return of a value; the script
\* then does nothing more.
C3_OtherErrorsPropagate ==
    [][/\ pc # "aborted"
       /\ (pc = "except" /\ e.http_status \notin {429, 403})
            => /\ pc' = "aborted"
               /\ e' = e
               /\ calls' = calls
               /\ sinceCall' = sinceCall
               /\ ret' = ret
               /\ retries' = retries]_vars

C3_Witness ==
    /\ pc = "aborted"
    /\ e.http_status = 404
    /\ retries = 2
    /\ calls = 3

AtNullItem ==
    /\ pc = "items"
    /\ i_idx <= Len(tracks_items)
    /\ ("track" \notin DOMAIN item \/ item.track = None)

\* C5: the step that processes an item with a null or missing track
\* reference changes no table, starts no artist lookup and moves to the next
\* item.
C5_NullTrackSkipped ==
    [][AtNullItem
         => /\ store' = store
            /\ committed' = committed
            /\ pc' = "items"
            /\ site' = site
            /\ calls' = calls
            /\ i_idx' = i_idx + 1]_vars

C5_Witness ==
    /\ pc = "items"
    /\ i_idx = 3
    /\ tracks_items[2] = NullItem
    /\ Len(store["tracks"]) = 1
    /\ Len(store["playlist_tracks"]) = 1
    /\ Len(store["playlists"]) = 1

\* the script is between the end of the pagination loop and the commit
InItemPhase ==
    \/ pc \in {"items", "after_artist", "insert_artist", "insert_album",
               "insert_track", "insert_playlist_track"}
    \/ (pc \in {"fetch", "except"} /\ site = "artist")

RECURSIVE SumLen(_)
SumLen(ss) == IF ss = <<>> THEN 0 ELSE Len(Head(ss)) + SumLen(Tail(ss))

\* C6: once the pagination loop has ended, tracks_items is the concatenation
\* in fetch order of the item lists of the pages that were fetched, those
\* are the first pages of the playlist in order, and the length is the sum
\* of the page sizes.
C6_PagesConcatenated ==
    InItemPhase
        => /\ tracks_items = Flatten(fetchedPages)
           /\ Len(tracks_items) = SumLen(fetchedPages)
           /\ Len(fetchedPages) <= world.npages[pid]
           /\ \A k \in 1..Len(fetchedPages) :
                fetchedPages[k] = PageOf(world, pid, k).items

C6_Witness ==
    /\ pc = "items"
    /\ world.npages[pid] = 2
    /\ Len(fetchedPages) = 2
    /\ Len(tracks_items) = 3

\* rows of a table with a given value in a column
RowsWith(db, table, column, value) ==
    SelectSeq(db[table], LAMBDA r : r[column] = value)

\* an item has just been processed whose artist lookup was given up
AfterGivenUpLookup ==
    /\ pc = "items"
    /\ i_idx > 1
    /\ itemLog.lookup = "gave_up"

\* C7 as claimed: after such an item, the artists row that the stored track
\* reaches through its album has empty genres.
C7_AlbumArtistGenresEmpty ==
    AfterGivenUpLookup
        => LET t == tracks_items[i_idx - 1].track
               trow == RowsWith(store, "tracks", "track_id", t.id)[1]
               arow == RowsWith(store, "albums", "album_id", trow.album_id)[1]
           IN  RowsWith(store, "artists", "artist_id", arow.artist_id)[1].genres = ""

\* C7: after such an item, all four rows of the item have been written in
\* order and there is exactly one artists row of the item's primary artist;
\* its genres are empty when no artists row with that id existed before the
\* item.
C7_NewArtistGenresEmpty ==
    AfterGivenUpLookup
        => LET t == tracks_items[i_idx - 1].track
               rows == RowsWith(store, "artists", "artist_id", t.artists[1].id)
           IN  /\ itemLog.writes = <<"artists", "albums", "tracks", "playlist_tracks">>
               /\ Len(rows) = 1
               /\ ~itemLog.known => rows[1].genres = ""

C7_Witness ==
    /\ AfterGivenUpLookup
    /\ ~itemLog.known
    /\ tracks_items[i_idx - 1] = ItemA
    /\ RowsWith(store, "artists", "artist_id", "r1") =
          <<[artist_id |-> "r1", name |-> "Ann", genres |-> ""]>>

\* the items with a track on page k of the playlist listed at place n, each
\* with the id of that playlist
SeenOnPage(n, k) ==
    LET id == world.listing[n].id
        its == PageOf(world, id, k).items
    IN  {[pid |-> id, track |-> its[j].track] :
            j \in {i \in 1..Len(its) : "track" \in DOMAIN its[i] /\ its[i].track # None}}

\* the same for all pages of all listed playlists
SeenItems ==
    UNION {SeenOnPage(x[1], x[2]) :
            x \in {y \in (1..Len(world.listing)) \X (1..MaxPages) :
                     y[2] <= world.npages[world.listing[y[1]].id]}}

\* the table has exactly one row per key of the set, and no other row
OneRowPerKey(table, keys) ==
    /\ Len(store[table]) = Cardinality(keys)
    /\ \A key \in keys :
         Cardinality({k \in 1..Len(store[table]) : SameKey(table, store[table][k], key)}) = 1

\* C8: after a completed run on an empty store in which no call was given
\* up, tracks, albums and artists hold one row per distinct track id, album
\* id and primary artist id of the items with a track, and playlist_tracks
\* one row per distinct pair of playlist id and track id.
C8_OneRowPerEntity ==
    (pc = "done" /\ gaveUp = {})
        => /\ OneRowPerKey("tracks", {[track_id |-> s.track.id] : s \in SeenItems})
           /\ OneRowPerKey("albums", {[album_id |-> s.track.album.id] : s \in SeenItems})
           /\ OneRowPerKey("artists", {[artist_id |-> s.track.artists[1].id] : s \in SeenItems})
           /\ OneRowPerKey("playlist_tracks",
                {[playlist_id |-> s.pid, track_id |-> s.track.id] : s \in SeenItems})
           /\ committed = store

\* two playlists sharing track t1: 1 track, 1 album, 1 artist, 2 memberships
C8_Witness ==
    /\ pc = "done"
    /\ gaveUp = {}
    /\ world.listing = <<Playlist1, Playlist2>>
    /\ Len(store["tracks"]) = 1
    /\ Len(store["albums"]) = 1
    /\ Len(store["artists"]) = 1
    /\ Len(store["playlist_tracks"]) = 2

\* every reference of a row of db names an existing row
Referential(db) ==
    /\ \A k \in 1..Len(db["tracks"]) :
         RowsWith(db, "albums", "album_id", db["tracks"][k].album_id) # <<>>
    /\ \A k \in 1..Len(db["albums"]) :
         RowsWith(db, "artists", "artist_id", db["albums"][k].artist_id) # <<>>
    /\ \A k \in 1..Len(db["playlist_tracks"]) :
         /\ RowsWith(db, "playlists", "playlist_id", db["playlist_tracks"][k].playlist_id) # <<>>
         /\ RowsWith(db, "tracks", "track_id", db["playlist_tracks"][k].track_id) # <<>>

IsPrefix(s, t) == Len(s) <= Len(t) /\ s = SubSeq(t, 1, Len(s))

\* C9: in every state, also between the writes of one item, every reference
\* in the connection's view and in spotify.db names an existing row, and
\* the writes of the current item so far are artist, album, track,
\* membership in that order.
C9_ReferentialIntegrity ==
    /\ Referential(store)
    /\ Referential(committed)
    /\ IsPrefix(itemLog.writes, <<"artists", "albums", "tracks", "playlist_tracks">>)

C9_Witness ==
    /\ pc = "insert_track"
    /\ itemLog.writes = <<"artists", "albums">>
    /\ Len(store["albums"]) > Len(committed["albums"])
    /\ Len(store["tracks"]) = Len(committed["tracks"])

\* every row of db is, unchanged and at its place, a row of db2
Kept(db, db2) == \A t \in TableNames : IsPrefix(db[t], db2[t])

\* C10: every step keeps every row of spotify.db unchanged, and every step
\* of a run keeps every row of the connection's view unchanged; the view
\* holds all rows of spotify.db; no table has two rows with the same key.
C10_AppendOnly ==
    [][/\ Kept(committed, committed')
       /\ Kept(committed', store')
       /\ run' = run => Kept(store, store')
       /\ \A t \in TableNames : \A j, k \in 1..Len(store'[t]) :
            SameKey(t, store'[t][j], store'[t][k]) => j = k]_vars

\* a row with other values for the key of a stored row has just been ignored
C10_Witness ==
    /\ run = 2
    /\ pc = "insert_playlist_track"
    /\ playlist = Playlist1Renamed
    /\ track = TrackB
    /\ RowsWith(store, "tracks", "track_id", "t1") =
          <<[track_id |-> "t1", name |-> "Song", album_id |-> "a1",
             popularity |-> 50, duration_ms |-> 1000, explicit |-> FALSE]>>
    /\ RowsWith(store, "playlists", "playlist_id", "p1") =
          <<[playlist_id |-> "p1", name |-> "Mix", owner |-> "ann", num_tracks |-> 3]>>

\* the rows of a table that the connection holds and spotify.db does not
Uncommitted(t) == SubSeq(store[t], Len(committed[t]) + 1, Len(store[t]))

\* the script is between the start of a playlist and its commit
InPlaylistBody ==
    /\ pc \notin {"list", "after_playlists", "playlist", "done"}
    /\ site # "playlists"

\* some item of the current playlist has a track for which P holds
SomeTrack(P(_)) ==
    \E k \in 1..Len(tracks_items) :
        /\ "track" \in DOMAIN tracks_items[k]
        /\ tracks_items[k].track # None
        /\ P(tracks_items[k].track)

\* every uncommitted row was written for the playlist being processed
UncommittedOfCurrent ==
    /\ Kept(committed, store)
    /\ ~InPlaylistBody => store = committed
    /\ InPlaylistBody =>
        /\ \A k \in 1..Len(Uncommitted("playlists")) :
             Uncommitted("playlists")[k].playlist_id = pid
        /\ \A k \in 1..Len(Uncommitted("playlist_tracks")) :
             Uncommitted("playlist_tracks")[k].playlist_id = pid
        /\ \A k \in 1..Len(Uncommitted("tracks")) :
             SomeTrack(LAMBDA t : t.id = Uncommitted("tracks")[k].track_id)
        /\ \A k \in 1..Len(Uncommitted("albums")) :
             SomeTrack(LAMBDA t : t.album.id = Uncommitted("albums")[k].album_id)
        /\ \A k \in 1..Len(Uncommitted("artists")) :
             SomeTrack(LAMBDA t : t.artists[1].id = Uncommitted("artists")[k].artist_id)

\* the playlists row of every playlist the loop has finished is in spotify.db
FinishedAreDurable ==
    InPlaylistBody \/ pc \in {"playlist", "done"}
        => \A k \in 1..(p_idx - 1) :
             HasKey(committed, "playlists", [playlist_id |-> playlists[k].id])

\* C11: the loop moves to the next playlist only by a step that commits all
\* writes so far; in every state the uncommitted rows are rows written for
\* the playlist being processed, there is none between playlists, and the
\* rows of every finished playlist are in spotify.db.
C11_CommitPerPlaylist ==
    [][/\ p_idx' # p_idx => (pc = "items" /\ committed' = store /\ store' = store)
       /\ UncommittedOfCurrent'
       /\ FinishedAreDurable']_vars

C11_Witness ==
    /\ pc = "insert_track"
    /\ p_idx = 2
    /\ Len(committed["playlists"]) = 1
    /\ Len(committed["playlist_tracks"]) = 1
    /\ Len(Uncommitted("playlists")) = 1
    /\ Len(Uncommitted("albums")) = 1

\* what a run leaves in spotify.db when the listing is answered with no
\* playlist: what was there before
AfterEmptyListing == snap

\* what a run on an empty store leaves when its only playlist is answered
\* with an empty first page: the playlists row and nothing else
AfterEmptyFirstPage ==
    [EmptyStore EXCEPT !["playlists"] =
        <<[playlist_id |-> playlists[1].id, name |-> playlists[1].name,
           owner |-> playlists[1].owner.display_name,
           num_tracks |-> playlists[1].tracks.total]>>]

\* C12: a run that ends with success after giving up the playlist listing,
\* or the first track page of its only playlist, leaves spotify.db in
\* another state than a run in which that call was answered with an empty
\* collection.
C12_SentinelDistinguished ==
    /\ (pc = "done" /\ gaveUp = {"playlists"}) => committed # AfterEmptyListing
    /\ (pc = "done" /\ gaveUp = {"first_page"} /\ Len(playlists) = 1 /\ snap = EmptyStore)
            => committed # AfterEmptyFirstPage

\* the answered empty listing that the first conjunct of C12 compares with
EmptyListingRun ==
    (pc = "done" /\ world.listing = <<>> /\ gaveUp = {}) => committed = AfterEmptyListing

\* no API call of the run has failed with anything but 429 or 403
OnlyRetryableFailures == e = NoError \/ IsRetryable(e)

\* the run is over with success: connection closed after the last commit,
\* every listed playlist has its row in spotify.db
EndedWithSuccess ==
    /\ pc = "done"
    /\ p_idx = Len(playlists) + 1
    /\ committed = store
    /\ \A k \in 1..Len(playlists) :
            HasKey(committed, "playlists", [playlist_id |-> playlists[k].id])
    /\ "playlists" \notin gaveUp => playlists = world.listing

\* C13: a run whose API failures are all 429 or 403 ends: every listed
\* playlist is committed, the store closed and success reported, whichever
\* calls were given up after max_retries.
C13_ExhaustionNeverAborts == ([]OnlyRetryableFailures) => <>EndedWithSuccess

C13_Witness ==
    /\ EndedWithSuccess
    /\ Len(playlists) = 2
    /\ {"first_page", "next_page", "artist"} \subseteq gaveUp

\* spotify.db holds the playlists before the current one and nothing of a
\* later one
CommittedBeforeCurrent ==
    /\ {committed["playlists"][n].playlist_id : n \in 1..Len(committed["playlists"])}
            = {playlists[j].id : j \in 1..(p_idx - 1)}
    /\ \A n \in 1..Len(committed["playlist_tracks"]) :
            \E j \in 1..(p_idx - 1) :
                committed["playlist_tracks"][n].playlist_id = playlists[j].id
    /\ Kept(committed, store)

\* C14: an error that is neither 429 nor 403 ends the run where it is
\* raised: that step calls, writes and commits nothing, no step follows it
\* (no call, write, commit or success message), and spotify.db is what the
\* last commit, that of the playlist before, left; commits happen nowhere
\* but at the end of a playlist.
C14_AbortKeepsCommitted ==
    [][/\ pc # "aborted"
       /\ pc' = "aborted" <=> (pc = "except" /\ ~IsRetryable(e))
       /\ pc' = "aborted"
            => /\ committed' = committed
               /\ store' = store
               /\ calls' = calls
               /\ p_idx' = p_idx
               /\ CommittedBeforeCurrent'
       /\ committed' # committed
            => /\ pc = "items"
               /\ committed' = store
               /\ p_idx' = p_idx + 1]_vars

C14_Witness ==
    /\ pc = "aborted"
    /\ site = "artist"
    /\ p_idx = 2
    /\ Len(committed["playlists"]) = 1
    /\ Len(store["playlists"]) = 2
    /\ Len(Uncommitted("playlist_tracks")) = 1

\* the playlists row of the k-th listed playlist, with the total it reports
PlaylistRowOf(k) ==
    [playlist_id |-> playlists[k].id, name |-> playlists[k].name,
     owner |-> playlists[k].owner.display_name,
     num_tracks |-> playlists[k].tracks.total]

RowIn(db, t, row) == \E n \in 1..Len(db[t]) : db[t][n] = row

\* C15: from the moment the first track page of a playlist is about to be
\* fetched, the connection holds the playlists row with the reported total,
\* and no membership row of the playlist yet when the fetch is entered;
\* a run that ended with success has the row of every listed playlist in
\* spotify.db, whatever the track fetches returned.
C15_PlaylistRowFirst ==
    /\ InPlaylistBody => RowIn(store, "playlists", PlaylistRowOf(p_idx))
    /\ (pc = "fetch" /\ site = "first_page") => store["playlist_tracks"] = committed["playlist_tracks"]
    /\ pc = "done" =>
            \A k \in 1..Len(playlists) : RowIn(committed, "playlists", PlaylistRowOf(k))

C15_Witness ==
    /\ pc = "done"
    /\ gaveUp = {"first_page"}
    /\ Len(playlists) = 2
    /\ RowIn(committed, "playlists", PlaylistRowOf(1))
    /\ RowIn(committed, "playlists", PlaylistRowOf(2))
    /\ Len(committed["playlist_tracks"]) = 1
    /\ playlists[1].tracks.total + playlists[2].tracks.total = 3

\* the latest response of the playlist's page fetches names a next page
NextIndicated == results # None /\ Get(results, "next", None) # None

\* a track-page fetch is entered by this step
PageFetchIssued == site' # site /\ site' \in {"first_page", "next_page"}

\* C16: after a page response the loop fetches again exactly when that
\* response names a next page; when it names none, or the continuation
\* gave no result, the item loop starts on all items fetched so far, no
\* page fetch follows for the playlist, and the playlist is left only
\* after every one of these items has been processed.
C16_PaginationStops ==
    [][/\ pc = "page_loop" =>
            IF NextIndicated
            THEN pc' = "fetch" /\ site' = "next_page" /\ tracks_items' = tracks_items
            ELSE /\ pc' = "items"
                 /\ i_idx' = 1
                 /\ tracks_items' = tracks_items
                 /\ tracks_items = Flatten(fetchedPages)
       /\ PageFetchIssued =>
            \/ pc = "page_loop" /\ site' = "next_page" /\ NextIndicated
            \/ pc = "first_page" /\ site' = "first_page" /\ fetchedPages = <<>>
       /\ pc' = "first_page" => pc = "playlist"
       /\ p_idx' # p_idx =>
            /\ pc = "items"
            /\ i_idx > Len(tracks_items)
            /\ tracks_items = Flatten(fetchedPages)]_vars

C16_Witness ==
    /\ pc = "items"
    /\ p_idx = 1
    /\ results = None
    /\ gaveUp = {"next_page"}
    /\ Len(fetchedPages) = 1
    /\ Len(tracks_items) = 2
    /\ i_idx = 3
    /\ Len(store["playlist_tracks"]) = 1

\* a continuation fetch has been entered and sp.next not yet invoked
BeforeContinuation == pc = "fetch" /\ site = "next_page" /\ calls = 0

Paused == \E n \in 1..Len(sinceCall) : sinceCall[n] = PagePauseMs

\* C17 as claimed: every continuation fetch of a playlist, the first one
\* included, is preceded by the inter-page pause since the page fetch
\* before it.
C17_PauseBetweenAnyTwoPages == BeforeContinuation => Paused

\* C17: the pause follows every continuation fetch, answered or given up,
\* so a continuation fetch that follows another is preceded by exactly one
\* pause; the first continuation follows the first page without a pause.
C17_PauseAfterContinuation ==
    [][/\ pc = "after_next_page" => sinceCall' = Append(sinceCall, PagePauseMs)
       /\ BeforeContinuation' =>
            sinceCall' = IF Len(fetchedPages') >= 2 THEN <<PagePauseMs>> ELSE <<>>]_vars

C17_Witness ==
    /\ BeforeContinuation
    /\ Len(fetchedPages) = 2
    /\ sinceCall = <<PagePauseMs>>

\* C18: when fetch_with_retry returns after an invocation that did not
\* raise, it returns that invocation's answer as it is, falsy or not; the
\* invocations before it all failed with 429 or 403, one suspension each,
\* fewer than max_retries of them; none has happened since.
C18_SuccessAfterRetries ==
    (pc \in ReturnLabels /\ rfails < calls) =>
        /\ ret = Invoke(site)
        /\ calls = rfails + 1
        /\ retries = rfails
        /\ calls <= max_retries
        /\ sinceCall = <<>>

C18_Witness ==
    /\ pc = "after_artist"
    /\ ret = <<>>
    /\ ~Truthy(ret)
    /\ calls = 3
    /\ rfails = 2
    /\ retries = 2
    /\ gaveUp = {}

====
